---- MODULE Spec2Model ----
(***************************************************************************)
(* Model of the hot-module-replacement compile pass of src/src/index.ts:   *)
(* a script is split at its app(...) entry call into a locals module       *)
(* (declarations plus a sealed accessor export) and a main module (the     *)
(* rewritten first argument of the entry call).                            *)
(*                                                                         *)
(* The syntax tree is the one babel produces: nodes are records with the   *)
(* babel field names.  A node's source range (start, end) is represented   *)
(* by its path from the program root, a sequence of <<field, index>>       *)
(* steps, so an edit of the MagicString buffer "at a range" is an edit     *)
(* "at a path".                                                            *)
(***************************************************************************)
EXTENDS Integers, Sequences, FiniteSets, TLC

\* ------------------------------------------------------------------------
\* Bounds of the model
\* ------------------------------------------------------------------------
MaxTop == 3
MaxBody == 2

\* ------------------------------------------------------------------------
\* Syntax tree
\* ------------------------------------------------------------------------
Null == [type |-> "Null"]
IsNull(n) == n.type = "Null"

Sub(p, f) == Append(p, <<f, 0>>)
SubI(p, f, i) == Append(p, <<f, i>>)

\* ------------------------------------------------------------------------
\* Results of the walk: the scope snapshot as the callee leaves it, the
\* edits it scheduled on the buffer, and the message of the Error it threw.
\* calls is a history of the walk (it is not program state): one entry per
\* declarator processVariableDeclaration went through, with the snapshot
\* before the declarator and the snapshot after it.
\* ------------------------------------------------------------------------
NoErr == ""
Res(b, ed, err) == [b |-> b, ed |-> ed, err |-> err, calls |-> {}]
Skip(b) == Res(b, {}, NoErr)
Throw(b, msg) == Res(b, {}, msg)
Then(r, s) ==
  IF r.err # NoErr THEN r
  ELSE [b |-> s.b, ed |-> r.ed \cup s.ed, err |-> s.err, calls |-> r.calls \cup s.calls]
Visited(r, p, pre) ==
  [r EXCEPT !.calls = @ \cup {[at |-> p, pre |-> pre, post |-> r.b]}]
Edit(p, name, text) == [at |-> p, name |-> name, text |-> text]

localsName == "__locals__"
getLocalsName(id) == "(" \o localsName \o "." \o id \o ")"

ShorthandText(name) == name \o ":" \o getLocalsName(name)

\* ------------------------------------------------------------------------
\* babel type predicates used by the walk
\* ------------------------------------------------------------------------
TSWrapperTypes ==
  {"TSAsExpression", "TSSatisfiesExpression", "TSTypeAssertion", "TSNonNullExpression"}

PatternLikeTypes ==
  {"Identifier", "RestElement", "AssignmentPattern", "ArrayPattern", "ObjectPattern"}
    \cup TSWrapperTypes

LValTypes ==
  PatternLikeTypes \cup {"MemberExpression", "TSParameterProperty"}

isPatternLike(n) == n.type \in PatternLikeTypes
isLVal(n) == n.type \in LValTypes
isExpression(n) == n.type # "TSType"
isJSXNamespacedName(n) == n.type = "JSXNamespacedName"

\* ------------------------------------------------------------------------
\* Entry-point locator
\* ------------------------------------------------------------------------
RECURSIVE isCalleeApp(_)
\* mutant: the member case follows the property instead of the object
isCalleeApp_mut(callee) ==
  CASE callee.type = "V8IntrinsicIdentifier" -> FALSE
    [] callee.type = "Identifier" -> callee.name = "app"
    [] callee.type = "CallExpression" -> isCalleeApp(callee.callee)
    [] callee.type = "MemberExpression" -> isCalleeApp(callee.property)
    [] OTHER -> FALSE

isCalleeApp(callee) ==
  CASE callee.type = "V8IntrinsicIdentifier" -> FALSE
    [] callee.type = "Identifier" -> callee.name = "app"
    [] callee.type = "CallExpression" -> isCalleeApp(callee.callee)
    [] callee.type = "MemberExpression" -> isCalleeApp(callee.object)
    [] OTHER -> FALSE

RemoveAt(s, i) == SubSeq(s, 1, i - 1) \o SubSeq(s, i + 1, Len(s))

IsEntryStatement(statement) ==
  /\ statement.type = "ExpressionStatement"
  /\ statement.expression.type = "CallExpression"
  /\ isCalleeApp(statement.expression.callee)

RECURSIVE parseFrom(_, _)
parseFrom(statements, i) ==
  IF i > Len(statements)
  THEN [err |-> "No app() call found", index |-> 0, localsAst |-> <<>>, mainAst |-> Null]
  ELSE IF IsEntryStatement(statements[i])
       THEN [err |-> NoErr, index |-> i,
             localsAst |-> RemoveAt(statements, i),
             mainAst |-> statements[i].expression]
       ELSE parseFrom(statements, i + 1)

parse(statements) == parseFrom(statements, 1)

\* ------------------------------------------------------------------------
\* Binding extractor
\* ------------------------------------------------------------------------
Binding(name, readonly) == [name |-> name, readonly |-> readonly]
BRes(bs, err) == [bindings |-> bs, err |-> err]

RECURSIVE objectPatternBindings(_, _, _, _)
objectPatternBindings(properties, i, readonly, acc) ==
  IF i > Len(properties) THEN BRes(acc, NoErr)
  ELSE LET property == properties[i] IN
    CASE property.type = "RestElement" ->
           IF property.argument.type # "Identifier"
           THEN BRes(acc, "Rest element must be an identifier")
           ELSE objectPatternBindings(properties, i + 1, readonly,
                  Append(acc, Binding(property.argument.name, readonly)))
      [] property.type = "ObjectProperty" ->
           IF property.key.type # "Identifier"
           THEN BRes(acc, "Object property must be an identifier")
           ELSE objectPatternBindings(properties, i + 1, readonly,
                  Append(acc, Binding(property.key.name, readonly)))
      [] OTHER -> objectPatternBindings(properties, i + 1, readonly, acc)

UnsupportedBindingTypes ==
  {"RestElement", "AssignmentPattern", "TSParameterProperty"} \cup TSWrapperTypes

RECURSIVE declarationBindings(_, _, _, _)
declarationBindings(declarations, i, readonly, acc) ==
  IF i > Len(declarations) THEN BRes(acc, NoErr)
  ELSE LET id == declarations[i].id IN
    CASE id.type = "Identifier" ->
           declarationBindings(declarations, i + 1, readonly,
             Append(acc, Binding(id.name, readonly)))
      [] id.type = "MemberExpression" ->
           declarationBindings(declarations, i + 1, readonly,
             Append(acc, Binding(id.text, readonly)))
      [] id.type = "ArrayPattern" ->
           declarationBindings(declarations, i + 1, readonly, acc)
      [] id.type = "ObjectPattern" ->
           LET r == objectPatternBindings(id.properties, 1, readonly, acc) IN
           IF r.err # NoErr THEN r
           ELSE declarationBindings(declarations, i + 1, readonly, r.bindings)
      [] id.type \in UnsupportedBindingTypes ->
           BRes(acc, "Unsupported binding type: " \o id.type)
      [] OTHER -> declarationBindings(declarations, i + 1, readonly, acc)

RECURSIVE importBindings(_, _, _)
importBindings(specifiers, i, acc) ==
  IF i > Len(specifiers) THEN acc
  ELSE IF specifiers[i].local.name # "app"
       THEN importBindings(specifiers, i + 1,
              Append(acc, Binding(specifiers[i].local.name, TRUE)))
       ELSE importBindings(specifiers, i + 1, acc)

RECURSIVE getBindingsFrom(_, _, _)

\* mutant: only let declarations are mutable
getBindingsFrom_mut(localsAst, i, acc) ==
  IF i > Len(localsAst) THEN BRes(acc, NoErr)
  ELSE LET statement == localsAst[i] IN
    IF statement.type = "VariableDeclaration"
    THEN LET r == declarationBindings(statement.declarations, 1,
                    statement.kind # "let", acc) IN
         IF r.err # NoErr THEN r ELSE getBindingsFrom(localsAst, i + 1, r.bindings)
    ELSE IF statement.type = "ImportDeclaration"
    THEN IF statement.importKind = "type"
         THEN getBindingsFrom(localsAst, i + 1, acc)
         ELSE getBindingsFrom(localsAst, i + 1,
                importBindings(statement.specifiers, 1, acc))
    ELSE getBindingsFrom(localsAst, i + 1, acc)

getBindingsFrom(localsAst, i, acc) ==
  IF i > Len(localsAst) THEN BRes(acc, NoErr)
  ELSE LET statement == localsAst[i] IN
    IF statement.type = "VariableDeclaration"
    THEN LET r == declarationBindings(statement.declarations, 1,
                    statement.kind = "const", acc) IN
         IF r.err # NoErr THEN r ELSE getBindingsFrom(localsAst, i + 1, r.bindings)
    ELSE IF statement.type = "ImportDeclaration"
    THEN IF statement.importKind = "type"
         THEN getBindingsFrom(localsAst, i + 1, acc)
         ELSE getBindingsFrom(localsAst, i + 1,
                importBindings(statement.specifiers, 1, acc))
    ELSE getBindingsFrom(localsAst, i + 1, acc)

getBindings(localsAst) == getBindingsFrom(localsAst, 1, <<>>)

\* ------------------------------------------------------------------------
\* Locals module synthesizer: the pieces appended to the locals buffer
\* ------------------------------------------------------------------------
ExportOpen == "export default Object.seal({"
ExportClose == "})"
ReadonlyProp(name) == name \o ","
GetterProp(name) == "get " \o name \o "() { return " \o name \o " },"
SetterProp(name) == "set " \o name \o "(v) { " \o name \o " = v },"

RECURSIVE exportProps(_, _)
exportProps(bindings, i) ==
  IF i > Len(bindings) THEN <<>>
  ELSE (IF bindings[i].readonly
        THEN <<ReadonlyProp(bindings[i].name)>>
        ELSE <<GetterProp(bindings[i].name), SetterProp(bindings[i].name)>>)
       \o exportProps(bindings, i + 1)

\* mutant: the read-only bindings are left out of the export
appendExport_mut(bindings) ==
  <<ExportOpen>> \o exportProps(SelectSeq(bindings, LAMBDA b : ~b.readonly), 1)
    \o <<ExportClose>>

appendExport(bindings) == <<ExportOpen>> \o exportProps(bindings, 1) \o <<ExportClose>>

\* ------------------------------------------------------------------------
\* Scoped rewriter.  Every operator takes the node, its path and the scope
\* snapshot, and returns Res(snapshot afterwards, edits, error).  "new
\* Set(bindings)" is Scoped: the callee works on a copy, the caller's set
\* is left as it was.
\* ------------------------------------------------------------------------
Scoped(b, r) == [r EXCEPT !.b = b]

StmtSkipTypes ==
  {"BreakStatement", "ContinueStatement", "DebuggerStatement", "EmptyStatement"}

StmtExportTypes ==
  {"ExportAllDeclaration", "ExportDefaultDeclaration", "ExportNamedDeclaration",
   "TSExportAssignment", "TSNamespaceExportDeclaration"}

StmtImportTypes == {"ImportDeclaration", "TSImportEqualsDeclaration"}

StmtDeclareTypes ==
  {"DeclareClass", "DeclareFunction", "DeclareInterface", "DeclareModule",
   "DeclareModuleExports", "DeclareTypeAlias", "DeclareOpaqueType",
   "DeclareVariable", "DeclareExportDeclaration", "DeclareExportAllDeclaration",
   "InterfaceDeclaration", "OpaqueType", "TypeAlias", "TSDeclareFunction",
   "TSInterfaceDeclaration", "TSTypeAliasDeclaration", "TSModuleDeclaration"}

ExprNoopTypes ==
  {"ThisExpression", "ClassExpression", "MetaProperty", "Super", "Import",
   "StringLiteral", "NumericLiteral", "NullLiteral", "BooleanLiteral",
   "RegExpLiteral", "BigIntLiteral", "DecimalLiteral"}

ExprArgumentTypes ==
  {"UnaryExpression", "UpdateExpression", "AwaitExpression"}

ExprWrapperTypes ==
  {"ParenthesizedExpression", "TypeCastExpression", "TSInstantiationExpression"}
    \cup TSWrapperTypes

ExprNotImplementedTypes ==
  {"ImportExpression", "BindExpression", "DoExpression", "RecordExpression",
   "TupleExpression", "JSXElement", "JSXFragment", "ModuleExpression",
   "TopicReference", "PipelineTopicExpression", "PipelineBareFunction",
   "PipelinePrimaryTopicReference"}

\* The functions of the walk call one another through Dispatch, the one
\* recursive operator of the walk: call_f(...) is a call of f(...).
RECURSIVE Dispatch(_, _, _, _, _, _)

call_processStmt(ast, p, bindings) == Dispatch("processStmt", ast, 0, "", p, bindings)
call_processExpr(ast, p, bindings) == Dispatch("processExpr", ast, 0, "", p, bindings)
call_processLVal(ast, p, bindings) == Dispatch("processLVal", ast, 0, "", p, bindings)
call_processDeclarationId(ast, p, bindings) == Dispatch("processDeclarationId", ast, 0, "", p, bindings)
call_processVariableDeclaration(ast, p, bindings) == Dispatch("processVariableDeclaration", ast, 0, "", p, bindings)
call_processExprOrPatternLike(ast, p, bindings) == Dispatch("processExprOrPatternLike", ast, 0, "", p, bindings)
call_processArgument(ast, p, bindings) == Dispatch("processArgument", ast, 0, "", p, bindings)
call_processCases(list, i, p, b) == Dispatch("processCases", list, i, "", p, b)
call_processEnumMembers(list, i, p, b) == Dispatch("processEnumMembers", list, i, "", p, b)
call_processExprList(list, i, p, b) == Dispatch("processExprList", list, i, "", p, b)
call_processTemplateExpressions(list, i, p, b) == Dispatch("processTemplateExpressions", list, i, "", p, b)
call_processElements(list, i, p, b) == Dispatch("processElements", list, i, "", p, b)
call_processArguments(list, i, p, b) == Dispatch("processArguments", list, i, "", p, b)
call_processObjectExpressionProperties(list, i, p, b) == Dispatch("processObjectExpressionProperties", list, i, "", p, b)
call_processLValList(list, i, p, b) == Dispatch("processLValList", list, i, "", p, b)
call_processLValElements(list, i, p, b) == Dispatch("processLValElements", list, i, "", p, b)
call_processObjectPatternProperties(list, i, p, b) == Dispatch("processObjectPatternProperties", list, i, "", p, b)
call_processDeclarationIdElements(list, i, p, b) == Dispatch("processDeclarationIdElements", list, i, "", p, b)
call_processDeclarationIdProperties(list, i, p, b) == Dispatch("processDeclarationIdProperties", list, i, "", p, b)
call_processDeclarations(list, i, p, b) == Dispatch("processDeclarations", list, i, "", p, b)
call_processStmtList(list, i, p, f, b) == Dispatch("processStmtList", list, i, f, p, b)

processStmtList(list, i, p, f, b) ==
  IF i > Len(list) THEN Skip(b)
  ELSE LET r == call_processStmt(list[i], SubI(p, f, i), b) IN
       Then(r, call_processStmtList(list, i + 1, p, f, r.b))

processCases(cases, i, p, b) ==
  IF i > Len(cases) THEN Skip(b)
  ELSE LET caseClause == cases[i]
           cp == SubI(p, "cases", i)
           r1 == IF ~IsNull(caseClause.test)
                 THEN call_processExpr(caseClause.test, Sub(cp, "test"), b)
                 ELSE Skip(b)
           r2 == Then(r1, Scoped(b,
                   call_processStmtList(caseClause.consequent, 1, cp, "consequent", b)))
       IN Then(r2, call_processCases(cases, i + 1, p, b))

processEnumMembers(members, i, p, b) ==
  IF i > Len(members) THEN Skip(b)
  ELSE LET mp == SubI(p, "members", i)
           r == IF ~IsNull(members[i].initializer)
                THEN call_processExpr(members[i].initializer, Sub(mp, "initializer"), b)
                ELSE Skip(b)
       IN Then(r, call_processEnumMembers(members, i + 1, p, b))

processStmt(ast, p, bindings) ==
  CASE ast.type = "BlockStatement" ->
         Scoped(bindings, call_processStmtList(ast.body, 1, p, "body", bindings))
    [] ast.type \in StmtSkipTypes -> Skip(bindings)
    [] ast.type = "DoWhileStatement" ->
         call_processStmt(ast.body, Sub(p, "body"), bindings)
    [] ast.type = "ExpressionStatement" ->
         call_processExpr(ast.expression, Sub(p, "expression"), bindings)
    [] ast.type = "ForInStatement" ->
         LET r1 == IF ast.left.type = "VariableDeclaration"
                   THEN call_processVariableDeclaration(ast.left, Sub(p, "left"), bindings)
                   ELSE call_processLVal(ast.left, Sub(p, "left"), bindings)
             r2 == Then(r1, call_processExpr(ast.right, Sub(p, "right"), r1.b))
             r3 == Then(r2, call_processStmt(ast.body, Sub(p, "body"), r2.b))
         IN Scoped(bindings, r3)
    [] ast.type = "ForStatement" ->
         LET r1 == IF ~IsNull(ast.init)
                   THEN IF ast.init.type = "VariableDeclaration"
                        THEN call_processVariableDeclaration(ast.init, Sub(p, "init"), bindings)
                        ELSE call_processExpr(ast.init, Sub(p, "init"), bindings)
                   ELSE Skip(bindings)
             r2 == Then(r1, IF ~IsNull(ast.test)
                            THEN call_processExpr(ast.test, Sub(p, "test"), r1.b)
                            ELSE Skip(r1.b))
             r3 == Then(r2, IF ~IsNull(ast.update)
                            THEN call_processExpr(ast.update, Sub(p, "update"), r2.b)
                            ELSE Skip(r2.b))
             r4 == Then(r3, call_processStmt(ast.body, Sub(p, "body"), r3.b))
         IN Scoped(bindings, r4)
    [] ast.type = "FunctionDeclaration" ->
         LET r1 == call_processLValList(ast.params, 1, p, bindings)
             r2 == Then(r1, call_processStmt(ast.body, Sub(p, "body"), r1.b))
         IN Scoped(bindings, r2)
    [] ast.type = "IfStatement" ->
         LET r1 == call_processExpr(ast.test, Sub(p, "test"), bindings)
             r2 == Then(r1, call_processStmt(ast.consequent, Sub(p, "consequent"), r1.b))
             r3 == Then(r2, IF ~IsNull(ast.alternate)
                            THEN call_processStmt(ast.alternate, Sub(p, "alternate"), r2.b)
                            ELSE Skip(r2.b))
         IN Scoped(bindings, r3)
    [] ast.type = "LabeledStatement" ->
         call_processStmt(ast.body, Sub(p, "body"), bindings)
    [] ast.type = "ReturnStatement" ->
         IF ~IsNull(ast.argument)
         THEN call_processExpr(ast.argument, Sub(p, "argument"), bindings)
         ELSE Skip(bindings)
    [] ast.type = "SwitchStatement" ->
         LET r1 == call_processExpr(ast.discriminant, Sub(p, "discriminant"), bindings)
         IN Then(r1, call_processCases(ast.cases, 1, p, r1.b))
    [] ast.type = "ThrowStatement" ->
         call_processExpr(ast.argument, Sub(p, "argument"), bindings)
    [] ast.type = "TryStatement" ->
         LET r1 == call_processStmt(ast.block, Sub(p, "block"), bindings)
             hp == Sub(p, "handler")
             r2 == Then(r1,
                     IF ~IsNull(ast.handler)
                     THEN LET h1 == IF ~IsNull(ast.handler.param)
                                    THEN Scoped(r1.b,
                                           call_processLVal(ast.handler.param, Sub(hp, "param"), r1.b))
                                    ELSE Skip(r1.b)
                          IN Then(h1, call_processStmt(ast.handler.body, Sub(hp, "body"), r1.b))
                     ELSE Skip(r1.b))
             r3 == Then(r2, IF ~IsNull(ast.finalizer)
                            THEN call_processStmt(ast.finalizer, Sub(p, "finalizer"), r2.b)
                            ELSE Skip(r2.b))
         IN r3
    [] ast.type = "VariableDeclaration" ->
         call_processVariableDeclaration(ast, p, bindings)
    [] ast.type = "WhileStatement" ->
         LET r1 == call_processExpr(ast.test, Sub(p, "test"), bindings)
             r2 == Then(r1, call_processStmt(ast.body, Sub(p, "body"), r1.b))
         IN Scoped(bindings, r2)
    [] ast.type = "WithStatement" ->
         LET r1 == call_processExpr(ast.object, Sub(p, "object"), bindings)
             r2 == Then(r1, call_processStmt(ast.body, Sub(p, "body"), r1.b))
         IN Scoped(bindings, r2)
    [] ast.type = "ClassDeclaration" ->
         Throw(bindings, "Not implemented: ClassDeclaration")
    [] ast.type \in StmtExportTypes ->
         Throw(bindings, "Cannot export from app main")
    [] ast.type = "ForOfStatement" ->
         LET r1 == call_processExpr(ast.right, Sub(p, "right"), bindings)
         IN Then(r1, IF ast.left.type = "VariableDeclaration"
                     THEN call_processVariableDeclaration(ast.left, Sub(p, "left"), r1.b)
                     ELSE call_processLVal(ast.left, Sub(p, "left"), r1.b))
    [] ast.type \in StmtImportTypes ->
         Throw(bindings, "Cannot import from app main")
    [] ast.type = "EnumDeclaration" ->
         Throw(bindings, "Not implemented: EnumDeclaration")
    [] ast.type \in StmtDeclareTypes -> Skip(bindings)
    [] ast.type = "TSEnumDeclaration" ->
         call_processEnumMembers(ast.members, 1, p, bindings)
    [] OTHER -> Skip(bindings)

processExprList(list, i, p, b) ==
  IF i > Len(list) THEN Skip(b)
  ELSE Then(call_processExpr(list[i], SubI(p, "expressions", i), b),
            call_processExprList(list, i + 1, p, b))

processTemplateExpressions(list, i, p, b) ==
  IF i > Len(list) THEN Skip(b)
  ELSE LET r == IF isExpression(list[i])
                THEN call_processExpr(list[i], SubI(p, "expressions", i), b)
                ELSE Skip(b)
       IN Then(r, call_processTemplateExpressions(list, i + 1, p, b))

processElements(elements, i, p, b) ==
  IF i > Len(elements) THEN Skip(b)
  ELSE LET element == elements[i]
           ep == SubI(p, "elements", i)
           r == IF IsNull(element) THEN Skip(b)
                ELSE IF element.type = "SpreadElement"
                THEN call_processExpr(element.argument, Sub(ep, "argument"), b)
                ELSE call_processExpr(element, ep, b)
       IN Then(r, call_processElements(elements, i + 1, p, b))

processArguments(arguments, i, p, b) ==
  IF i > Len(arguments) THEN Skip(b)
  ELSE Then(call_processArgument(arguments[i], SubI(p, "arguments", i), b),
            call_processArguments(arguments, i + 1, p, b))

processObjectExpressionProperties(properties, i, p, b) ==
  IF i > Len(properties) THEN Skip(b)
  ELSE LET property == properties[i]
           pp == SubI(p, "properties", i)
           r ==
             CASE property.type = "ObjectProperty" ->
                    IF property.shorthand
                    THEN IF property.key.type # "Identifier"
                         THEN Throw(b, "Object property must be an identifier")
                         ELSE IF property.key.name \in b
                              THEN Res(b, {Edit(Sub(pp, "key"), property.key.name,
                                                ShorthandText(property.key.name))}, NoErr)
                              ELSE Skip(b)
                    ELSE LET r1 == IF property.key.type # "PrivateName" /\ property.computed
                                   THEN call_processExpr(property.key, Sub(pp, "key"), b)
                                   ELSE Skip(b)
                         IN Then(r1, call_processExprOrPatternLike(property.value, Sub(pp, "value"), b))
               [] property.type = "SpreadElement" ->
                    call_processExpr(property.argument, Sub(pp, "argument"), b)
               [] property.type = "ObjectMethod" ->
                    LET r1 == call_processLValList(property.params, 1, pp, b)
                        r2 == Then(r1, call_processStmt(property.body, Sub(pp, "body"), r1.b))
                    IN Scoped(b, r2)
               [] OTHER -> Skip(b)
       IN Then(r, call_processObjectExpressionProperties(properties, i + 1, p, b))

processExpr(ast, p, bindings) ==
  CASE ast.type = "ArrayExpression" ->
         call_processElements(ast.elements, 1, p, bindings)
    [] ast.type = "AssignmentExpression" ->
         LET r1 == IF ast.left.type = "OptionalMemberExpression"
                   THEN call_processExpr(ast.left, Sub(p, "left"), bindings)
                   ELSE call_processLVal(ast.left, Sub(p, "left"), bindings)
         IN Then(r1, call_processExpr(ast.right, Sub(p, "right"), bindings))
    [] ast.type = "BinaryExpression" ->
         LET r1 == IF ast.left.type # "PrivateName"
                   THEN call_processExpr(ast.left, Sub(p, "left"), bindings)
                   ELSE Skip(bindings)
         IN Then(r1, call_processExpr(ast.right, Sub(p, "right"), bindings))
    [] ast.type \in {"CallExpression", "NewExpression"} ->
         IF ast.callee.type = "V8IntrinsicIdentifier"
         THEN Throw(bindings, "Not implemented: " \o ast.callee.name)
         ELSE Then(call_processExpr(ast.callee, Sub(p, "callee"), bindings),
                   call_processArguments(ast.arguments, 1, p, bindings))
    [] ast.type = "ConditionalExpression" ->
         LET r1 == call_processExpr(ast.test, Sub(p, "test"), bindings)
             r2 == Then(r1, call_processExpr(ast.consequent, Sub(p, "consequent"), bindings))
         IN Then(r2, call_processExpr(ast.alternate, Sub(p, "alternate"), bindings))
    [] ast.type = "FunctionExpression" ->
         Scoped(bindings, call_processStmt(ast.body, Sub(p, "body"), bindings))
    [] ast.type = "Identifier" ->
         IF ast.name \in bindings
         THEN Res(bindings, {Edit(p, ast.name, getLocalsName(ast.name))}, NoErr)
         ELSE Skip(bindings)
    [] ast.type = "LogicalExpression" ->
         Then(call_processExpr(ast.left, Sub(p, "left"), bindings),
              call_processExpr(ast.right, Sub(p, "right"), bindings))
    [] ast.type = "MemberExpression" ->
         LET r1 == call_processExpr(ast.object, Sub(p, "object"), bindings)
         IN Then(r1, IF ast.property.type # "PrivateName"
                     THEN call_processExpr(ast.property, Sub(p, "property"), bindings)
                     ELSE Skip(bindings))
    [] ast.type = "ObjectExpression" ->
         call_processObjectExpressionProperties(ast.properties, 1, p, bindings)
    [] ast.type = "SequenceExpression" ->
         call_processExprList(ast.expressions, 1, p, bindings)
    [] ast.type \in ExprWrapperTypes ->
         call_processExpr(ast.expression, Sub(p, "expression"), bindings)
    [] ast.type \in ExprArgumentTypes ->
         call_processExpr(ast.argument, Sub(p, "argument"), bindings)
    [] ast.type = "ArrowFunctionExpression" ->
         LET r1 == call_processLValList(ast.params, 1, p, bindings)
             r2 == Then(r1, IF ast.body.type = "BlockStatement"
                            THEN call_processStmt(ast.body, Sub(p, "body"), r1.b)
                            ELSE call_processExpr(ast.body, Sub(p, "body"), r1.b))
         IN Scoped(bindings, r2)
    [] ast.type \in ExprNoopTypes -> Skip(bindings)
    [] ast.type \in ExprNotImplementedTypes ->
         Throw(bindings, "Not implemented: " \o ast.type)
    [] ast.type = "TaggedTemplateExpression" ->
         Then(call_processExpr(ast.tag, Sub(p, "tag"), bindings),
              call_processExpr(ast.quasi, Sub(p, "quasi"), bindings))
    [] ast.type = "TemplateLiteral" ->
         call_processTemplateExpressions(ast.expressions, 1, p, bindings)
    [] ast.type = "YieldExpression" ->
         IF ~IsNull(ast.argument)
         THEN call_processExpr(ast.argument, Sub(p, "argument"), bindings)
         ELSE Skip(bindings)
    [] ast.type = "OptionalMemberExpression" ->
         Then(call_processExpr(ast.object, Sub(p, "object"), bindings),
              call_processExpr(ast.property, Sub(p, "property"), bindings))
    [] ast.type = "OptionalCallExpression" ->
         Then(call_processExpr(ast.callee, Sub(p, "callee"), bindings),
              call_processArguments(ast.arguments, 1, p, bindings))
    [] OTHER -> Skip(bindings)

processLValList(list, i, p, b) ==
  IF i > Len(list) THEN Skip(b)
  ELSE Then(call_processLVal(list[i], SubI(p, "params", i), b),
            call_processLValList(list, i + 1, p, b))

processLValElements(elements, i, p, b) ==
  IF i > Len(elements) THEN Skip(b)
  ELSE LET r == IF ~IsNull(elements[i])
                THEN call_processLVal(elements[i], SubI(p, "elements", i), b)
                ELSE Skip(b)
       IN Then(r, call_processLValElements(elements, i + 1, p, b))

processObjectPatternProperties(properties, i, p, b) ==
  IF i > Len(properties) THEN Skip(b)
  ELSE LET property == properties[i]
           pp == SubI(p, "properties", i)
           r ==
             CASE property.type = "RestElement" -> call_processLVal(property, pp, b)
               [] property.type = "ObjectProperty" ->
                    IF property.shorthand
                    THEN IF property.key.type # "Identifier"
                         THEN Throw(b, "Object property must be an identifier")
                         ELSE IF property.key.name \in b
                              THEN Res(b, {Edit(Sub(pp, "key"), property.key.name,
                                                ShorthandText(property.key.name))}, NoErr)
                              ELSE Skip(b)
                    ELSE LET r1 == IF property.key.type # "PrivateName" /\ property.computed
                                   THEN call_processExpr(property.key, Sub(pp, "key"), b)
                                   ELSE Skip(b)
                         IN Then(r1, call_processExprOrPatternLike(property.value, Sub(pp, "value"), b))
               [] OTHER -> Skip(b)
       IN Then(r, call_processObjectPatternProperties(properties, i + 1, p, b))

processLVal(ast, p, bindings) ==
  CASE ast.type = "Identifier" ->
         IF ast.name \in bindings
         THEN Res(bindings, {Edit(p, ast.name, getLocalsName(ast.name))}, NoErr)
         ELSE Skip(bindings)
    [] ast.type = "MemberExpression" ->
         LET r1 == call_processExpr(ast.object, Sub(p, "object"), bindings)
         IN Then(r1, IF ast.property.type # "PrivateName"
                     THEN call_processExpr(ast.property, Sub(p, "property"), bindings)
                     ELSE Skip(bindings))
    [] ast.type = "RestElement" ->
         call_processLVal(ast.argument, Sub(p, "argument"), bindings)
    [] ast.type = "AssignmentPattern" ->
         Then(call_processLVal(ast.left, Sub(p, "left"), bindings),
              call_processExpr(ast.right, Sub(p, "right"), bindings))
    [] ast.type = "ArrayPattern" ->
         call_processLValElements(ast.elements, 1, p, bindings)
    [] ast.type = "ObjectPattern" ->
         call_processObjectPatternProperties(ast.properties, 1, p, bindings)
    [] ast.type = "TSParameterProperty" -> Skip(bindings)
    [] ast.type \in TSWrapperTypes ->
         call_processExpr(ast.expression, Sub(p, "expression"), bindings)
    [] OTHER -> Skip(bindings)

processDeclarationIdElements(elements, i, p, b) ==
  IF i > Len(elements) THEN Skip(b)
  ELSE LET r == IF ~IsNull(elements[i])
                THEN call_processDeclarationId(elements[i], SubI(p, "elements", i), b)
                ELSE Skip(b)
       IN Then(r, call_processDeclarationIdElements(elements, i + 1, p, r.b))

processDeclarationIdProperties(properties, i, p, b) ==
  IF i > Len(properties) THEN Skip(b)
  ELSE LET property == properties[i]
           pp == SubI(p, "properties", i)
           r ==
             CASE property.type = "RestElement" ->
                    IF property.argument.type # "Identifier"
                    THEN Throw(b, "Rest element must be an identifier in variable decl")
                    ELSE Skip(b \ {property.argument.name})
               [] property.type = "ObjectProperty" ->
                    IF property.shorthand
                    THEN IF property.key.type # "Identifier"
                         THEN Throw(b, "Object property must be an identifier in variable decl")
                         ELSE Skip(b \ {property.key.name})
                    ELSE LET r1 == IF property.key.type # "PrivateName" /\ property.computed
                                   THEN call_processExpr(property.key, Sub(pp, "key"), b)
                                   ELSE Skip(b)
                         IN Then(r1, IF ~isLVal(property.value)
                                     THEN Throw(b, "Object property must be a pattern in variable decl")
                                     ELSE call_processDeclarationId(property.value, Sub(pp, "value"), b))
               [] OTHER -> Skip(b)
       IN Then(r, call_processDeclarationIdProperties(properties, i + 1, p, r.b))

processDeclarationId(ast, p, bindings) ==
  CASE ast.type = "Identifier" -> Skip(bindings \ {ast.name})
    [] ast.type = "MemberExpression" ->
         Throw(bindings, "Unsupported declaration type: " \o ast.type)
    [] ast.type = "RestElement" ->
         IF ast.argument.type # "Identifier"
         THEN Throw(bindings, "Rest element must be an identifier in variable decl")
         ELSE Skip(bindings \ {ast.argument.name})
    [] ast.type = "AssignmentPattern" ->
         LET r1 == call_processDeclarationId(ast.left, Sub(p, "left"), bindings)
         IN Then(r1, call_processExpr(ast.right, Sub(p, "right"), r1.b))
    [] ast.type = "ArrayPattern" ->
         call_processDeclarationIdElements(ast.elements, 1, p, bindings)
    [] ast.type = "ObjectPattern" ->
         call_processDeclarationIdProperties(ast.properties, 1, p, bindings)
    [] ast.type = "TSParameterProperty" -> Skip(bindings)
    [] ast.type \in TSWrapperTypes ->
         call_processExpr(ast.expression, Sub(p, "expression"), bindings)
    [] OTHER -> Skip(bindings)

processDeclarations(declarations, i, p, b) ==
  IF i > Len(declarations) THEN Skip(b)
  ELSE LET declaration == declarations[i]
           dp == SubI(p, "declarations", i)
           r1 == IF ~IsNull(declaration.init)
                 THEN call_processExpr(declaration.init, Sub(dp, "init"), b)
                 ELSE Skip(b)
           r2 == Visited(Then(r1, call_processDeclarationId(declaration.id, Sub(dp, "id"), r1.b)),
                         dp, b)
       IN Then(r2, call_processDeclarations(declarations, i + 1, p, r2.b))

processVariableDeclaration(ast, p, bindings) ==
  call_processDeclarations(ast.declarations, 1, p, bindings)

processExprOrPatternLike(ast, p, bindings) ==
  IF isPatternLike(ast)
  THEN call_processLVal(ast, p, bindings)
  ELSE call_processExpr(ast, p, bindings)

processArgument(ast, p, bindings) ==
  IF isJSXNamespacedName(ast) THEN Skip(bindings)
  ELSE IF ast.type = "SpreadElement"
  THEN call_processExpr(ast.argument, Sub(p, "argument"), bindings)
  ELSE IF ast.type = "ArgumentPlaceholder"
  THEN Throw(bindings, "Not implemented: " \o ast.type)
  ELSE call_processExpr(ast, p, bindings)

Dispatch(fn, x, i, f, p, b) ==
  CASE fn = "processStmt" -> processStmt(x, p, b)
    [] fn = "processExpr" -> processExpr(x, p, b)
    [] fn = "processLVal" -> processLVal(x, p, b)
    [] fn = "processDeclarationId" -> processDeclarationId(x, p, b)
    [] fn = "processVariableDeclaration" -> processVariableDeclaration(x, p, b)
    [] fn = "processExprOrPatternLike" -> processExprOrPatternLike(x, p, b)
    [] fn = "processArgument" -> processArgument(x, p, b)
    [] fn = "processCases" -> processCases(x, i, p, b)
    [] fn = "processEnumMembers" -> processEnumMembers(x, i, p, b)
    [] fn = "processExprList" -> processExprList(x, i, p, b)
    [] fn = "processTemplateExpressions" -> processTemplateExpressions(x, i, p, b)
    [] fn = "processElements" -> processElements(x, i, p, b)
    [] fn = "processArguments" -> processArguments(x, i, p, b)
    [] fn = "processObjectExpressionProperties" -> processObjectExpressionProperties(x, i, p, b)
    [] fn = "processLValList" -> processLValList(x, i, p, b)
    [] fn = "processLValElements" -> processLValElements(x, i, p, b)
    [] fn = "processObjectPatternProperties" -> processObjectPatternProperties(x, i, p, b)
    [] fn = "processDeclarationIdElements" -> processDeclarationIdElements(x, i, p, b)
    [] fn = "processDeclarationIdProperties" -> processDeclarationIdProperties(x, i, p, b)
    [] fn = "processDeclarations" -> processDeclarations(x, i, p, b)
    [] fn = "processStmtList" -> processStmtList(x, i, p, f, b)

\* ------------------------------------------------------------------------
\* Main module synthesizer: wrapMain overwrites the range from the start of
\* the call to the start of its first argument with the header and removes
\* the range from the end of the first argument to the end of the call, so
\* only the edits inside the first argument survive.  With no argument,
\* reading arguments[0].start throws a TypeError.
\* ------------------------------------------------------------------------
MainHeader == "export default (" \o localsName \o ") =>"

IsPrefix(p, q) == Len(p) <= Len(q) /\ SubSeq(q, 1, Len(p)) = p

wrapMain(mainAst, callPath, mainSrc) ==
  IF Len(mainAst.arguments) = 0
  THEN [err |-> "TypeError: Cannot read properties of undefined (reading 'start')",
        src |-> mainSrc]
  ELSE LET argPath == SubI(callPath, "arguments", 1) IN
       [err |-> NoErr,
        src |-> [kept |-> argPath,
                 head |-> MainHeader,
                 edits |-> {e \in mainSrc.edits : IsPrefix(argPath, e.at)}]]

InitialSnapshot(bindings) == {bindings[i].name : i \in DOMAIN bindings}

\* ------------------------------------------------------------------------
\* Syntax tree constructors (the shapes babelParse returns)
\* ------------------------------------------------------------------------
Id(n) == [type |-> "Identifier", name |-> n]
Num == [type |-> "NumericLiteral"]
Str == [type |-> "StringLiteral"]
ExprStmt(e) == [type |-> "ExpressionStatement", expression |-> e]
Declarator(id, init) == [type |-> "VariableDeclarator", id |-> id, init |-> init]
VarDecl(kind, decls) == [type |-> "VariableDeclaration", kind |-> kind, declarations |-> decls]
Block(body) == [type |-> "BlockStatement", body |-> body]
Arrow(params, body) == [type |-> "ArrowFunctionExpression", params |-> params, body |-> body]
FunctionExpr(params, body) == [type |-> "FunctionExpression", params |-> params, body |-> body]
FunctionDecl(params, body) == [type |-> "FunctionDeclaration", params |-> params, body |-> body]
Call(callee, args) == [type |-> "CallExpression", callee |-> callee, arguments |-> args]
Member(obj, prop, computed) ==
  [type |-> "MemberExpression", object |-> obj, property |-> prop, computed |-> computed]
OptionalMember(obj, prop, computed) ==
  [type |-> "OptionalMemberExpression", object |-> obj, property |-> prop, computed |-> computed]
Binary(l, r) == [type |-> "BinaryExpression", left |-> l, right |-> r]
Assign(l, r) == [type |-> "AssignmentExpression", left |-> l, right |-> r]
Update(e) == [type |-> "UpdateExpression", argument |-> e]
Return(e) == [type |-> "ReturnStatement", argument |-> e]
ClassDecl == [type |-> "ClassDeclaration"]
ClassExpr == [type |-> "ClassExpression"]
Spread(e) == [type |-> "SpreadElement", argument |-> e]
ArrayPat(elements) == [type |-> "ArrayPattern", elements |-> elements]
ObjectPat(properties) == [type |-> "ObjectPattern", properties |-> properties]
Rest(e) == [type |-> "RestElement", argument |-> e]
ObjProp(key, value, shorthand, computed) ==
  [type |-> "ObjectProperty", key |-> key, value |-> value,
   shorthand |-> shorthand, computed |-> computed]
ObjMethod(params, body) == [type |-> "ObjectMethod", params |-> params, body |-> body]
ObjectExpr(properties) == [type |-> "ObjectExpression", properties |-> properties]
ForOf(left, right, body) ==
  [type |-> "ForOfStatement", left |-> left, right |-> right, body |-> body]
ForIn(left, right, body) ==
  [type |-> "ForInStatement", left |-> left, right |-> right, body |-> body]
For(init, test, update, body) ==
  [type |-> "ForStatement", init |-> init, test |-> test, update |-> update, body |-> body]
While(test, body) == [type |-> "WhileStatement", test |-> test, body |-> body]
DoWhile(body, test) == [type |-> "DoWhileStatement", body |-> body, test |-> test]
Catch(param, body) == [type |-> "CatchClause", param |-> param, body |-> body]
Try(block, handler, finalizer) ==
  [type |-> "TryStatement", block |-> block, handler |-> handler, finalizer |-> finalizer]
SwitchCase(test, consequent) == [type |-> "SwitchCase", test |-> test, consequent |-> consequent]
Switch(discriminant, cases) ==
  [type |-> "SwitchStatement", discriminant |-> discriminant, cases |-> cases]
ImportSpec(local) == [type |-> "ImportSpecifier", local |-> Id(local)]
Import(importKind, specifiers) ==
  [type |-> "ImportDeclaration", importKind |-> importKind, specifiers |-> specifiers]

\* ------------------------------------------------------------------------
\* Input scripts (program.body as babelParse returns it)
\* ------------------------------------------------------------------------
SeqsUpTo(S, n) == UNION {[1..k -> S] : k \in 0..n}

RefX == ExprStmt(Id("x"))
RefY == ExprStmt(Id("y"))
LetX(init) == VarDecl("let", <<Declarator(Id("x"), init)>>)

\* names bound by a declaration target
RECURSIVE BoundNames(_)
BoundNames(pat) ==
  CASE pat.type = "Identifier" -> {pat.name}
    [] pat.type = "RestElement" -> BoundNames(pat.argument)
    [] pat.type = "AssignmentPattern" -> BoundNames(pat.left)
    [] pat.type = "ArrayPattern" ->
         UNION {BoundNames(pat.elements[i]) : i \in DOMAIN pat.elements}
    [] pat.type = "ObjectPattern" ->
         UNION {IF pat.properties[i].type = "RestElement"
                THEN BoundNames(pat.properties[i].argument)
                ELSE BoundNames(pat.properties[i].value) : i \in DOMAIN pat.properties}
    [] OTHER -> {}

DeclaredNames(stmt) ==
  CASE stmt.type = "VariableDeclaration" ->
         UNION {BoundNames(stmt.declarations[i].id) : i \in DOMAIN stmt.declarations}
    [] stmt.type = "ImportDeclaration" ->
         {stmt.specifiers[i].local.name : i \in DOMAIN stmt.specifiers}
    [] OTHER -> {}

\* the parser rejects a redeclaration of a let, const or import name
NoRedeclaration(stmts) ==
  \A i, j \in DOMAIN stmts :
    (i < j /\ DeclaredNames(stmts[i]) \cap DeclaredNames(stmts[j]) # {})
      => (stmts[i].type = "VariableDeclaration" /\ stmts[i].kind = "var"
          /\ stmts[j].type = "VariableDeclaration" /\ stmts[j].kind = "var")

SimpleMain == Arrow(<<>>, Id("x"))

TopPool ==
  { VarDecl("const", <<Declarator(Id("x"), Num)>>),
    VarDecl("let", <<Declarator(Id("y"), Num), Declarator(Id("z"), Null)>>),
    VarDecl("var", <<Declarator(Id("v"), Num)>>),
    VarDecl("const", <<Declarator(Id("app"), Num)>>),
    VarDecl("let", <<Declarator(ArrayPat(<<Id("a")>>), Num)>>),
    VarDecl("const", <<Declarator(ObjectPat(<<ObjProp(Id("k"), Id("k"), TRUE, FALSE),
                                              Rest(Id("r"))>>), Num)>>),
    VarDecl("const", <<Declarator(ObjectPat(<<ObjProp(Str, Id("s"), FALSE, FALSE)>>), Num)>>),
    Import("value", <<ImportSpec("c")>>),
    Import("value", <<ImportSpec("app"), ImportSpec("d")>>),
    Import("type", <<ImportSpec("t")>>),
    FunctionDecl(<<>>, Block(<<>>)),
    ExprStmt(Id("app")),
    ExprStmt(Call(Id("foo"), <<SimpleMain>>)),
    ExprStmt(Call(Member(Id("foo"), Id("app"), FALSE), <<SimpleMain>>)),
    ExprStmt(Call(Id("app"), <<SimpleMain>>)),
    ExprStmt(Call(Member(Call(Member(Id("app"), Id("config"), FALSE), <<>>),
                         Id("run"), FALSE), <<SimpleMain>>)),
    ExprStmt(Call(Call(Id("app"), <<>>), <<Id("y")>>)) }

TopPrograms == {s \in SeqsUpTo(TopPool, MaxTop) : NoRedeclaration(s)}

StmtPool ==
  { RefX,
    LetX(Binary(Id("x"), Num)),
    Block(<<LetX(Num), RefX>>),
    ForOf(VarDecl("const", <<Declarator(Id("x"), Null)>>), Id("y"), Block(<<RefY>>)),
    DoWhile(Block(<<RefY>>), Id("x")),
    Try(Block(<<RefX>>), Catch(Id("x"), Block(<<RefX>>)), Null),
    ExprStmt(Arrow(<<Id("x")>>, Id("x"))),
    ClassDecl,
    ExprStmt(ClassExpr),
    ExprStmt(Member(Id("y"), Id("x"), FALSE)),
    ExprStmt(Member(Id("y"), Id("x"), TRUE)),
    ExprStmt(OptionalMember(Id("y"), Id("x"), FALSE)),
    ExprStmt(Assign(Member(Id("y"), Id("x"), FALSE), Id("x"))),
    ForIn(LetX(Null), Id("y"), Block(<<RefX>>)),
    For(LetX(Num), Id("x"), Update(Id("x")), Block(<<RefX>>)),
    While(Id("x"), Block(<<LetX(Num)>>)),
    FunctionDecl(<<Id("x")>>, Block(<<RefX>>)),
    ExprStmt(ObjectExpr(<<ObjMethod(<<Id("x")>>, Block(<<RefX>>))>>)),
    ExprStmt(FunctionExpr(<<Id("x")>>, Block(<<RefX>>))),
    Switch(Id("y"), <<SwitchCase(Num, <<LetX(Num), RefX>>)>>),
    Return(Id("x")),
    ExprStmt(ObjectExpr(<<ObjProp(Id("x"), Id("x"), TRUE, FALSE)>>)),
    VarDecl("const", <<Declarator(ObjectPat(<<ObjProp(Id("x"), Id("x"), TRUE, FALSE)>>),
                                  Id("y"))>>) }

Bodies == SeqsUpTo(StmtPool, MaxBody)

Callees ==
  { Id("app"),
    Call(Id("app"), <<>>),
    Member(Call(Member(Id("app"), Id("config"), FALSE), <<Id("x")>>), Id("run"), FALSE) }

FirstArgs ==
  { Arrow(<<>>, Id("x")),
    Arrow(<<Id("x")>>, Id("x")),
    Arrow(<<>>, Num),
    FunctionExpr(<<Id("x")>>, Block(<<RefX>>)),
    ClassExpr,
    Id("x"),
    Spread(Id("y")) }

MoreArgs ==
  { <<>>,
    <<Id("x")>>,
    <<Arrow(<<>>, Block(<<ClassDecl>>))>> }

EntryCalls ==
  {Call(Id("app"), <<Arrow(<<>>, Block(body))>>) : body \in Bodies}
    \cup {Call(c, <<a>> \o m) : c \in Callees, a \in FirstArgs, m \in MoreArgs}
    \cup {Call(Id("app"), <<>>)}

ArgPrograms ==
  { <<VarDecl("let", <<Declarator(Id("x"), Num)>>),
      VarDecl("const", <<Declarator(Id("y"), Num)>>),
      ExprStmt(c)>> : c \in EntryCalls }

Programs == TopPrograms \cup ArgPrograms

\* ------------------------------------------------------------------------
\* The process: the setTimeout callback runs compile and writes two files
\* ------------------------------------------------------------------------
\* walk is the history of the rewrite walk (see calls above)
VARIABLES pc, program, parseResult, bindings, localsSrc, mainSrc, result, files, err,
          walk

vars == <<pc, program, parseResult, bindings, localsSrc, mainSrc, result, files, err,
          walk>>

NoParse == [err |-> NoErr, index |-> 0, localsAst |-> <<>>, mainAst |-> Null]
NoLocalsSrc == [removed |-> 0, appended |-> <<>>]
NoMainSrc == [kept |-> <<>>, head |-> "", edits |-> {}]
NoResult == [locals |-> NoLocalsSrc, main |-> NoMainSrc]

CallPath(i) == <<<<"body", i>>, <<"expression", 0>>>>

Init ==
  /\ pc = "start"
  /\ program \in Programs
  /\ parseResult = NoParse
  /\ bindings = <<>>
  /\ localsSrc = NoLocalsSrc
  /\ mainSrc = NoMainSrc
  /\ result = NoResult
  /\ files = {}
  /\ err = NoErr
  /\ walk = {}

Fail(msg) ==
  /\ pc' = "failed"
  /\ err' = msg

\* compile, line 790: parse(src)
Parse ==
  /\ pc = "start"
  /\ LET r == parse(program) IN
     IF r.err # NoErr
     THEN /\ Fail(r.err)
          /\ UNCHANGED <<parseResult, localsSrc, mainSrc>>
     ELSE /\ pc' = "parsed"
          /\ parseResult' = r
          /\ localsSrc' = [removed |-> r.index, appended |-> <<>>]
          /\ mainSrc' = [kept |-> CallPath(r.index), head |-> "", edits |-> {}]
          /\ err' = err
  /\ UNCHANGED <<program, bindings, result, files, walk>>

\* compile, line 791: getBindings(parseResult)
GetBindings ==
  /\ pc = "parsed"
  /\ LET r == getBindings(parseResult.localsAst) IN
     IF r.err # NoErr
     THEN Fail(r.err) /\ UNCHANGED bindings
     ELSE pc' = "bound" /\ bindings' = r.bindings /\ err' = err
  /\ UNCHANGED <<program, parseResult, localsSrc, mainSrc, result, files, walk>>

\* compile, line 792: appendExport(parseResult, bindings)
AppendExport ==
  /\ pc = "bound"
  /\ pc' = "exported"
  /\ localsSrc' = [localsSrc EXCEPT !.appended = appendExport(bindings)]
  /\ UNCHANGED <<program, parseResult, bindings, mainSrc, result, files, err, walk>>

\* compile, lines 793-797: call_processExpr(mainAst, mainSrc, new Set(names))
RewriteMain ==
  /\ pc = "exported"
  /\ LET r == call_processExpr(parseResult.mainAst, CallPath(parseResult.index),
                          InitialSnapshot(bindings)) IN
     IF r.err # NoErr
     THEN Fail(r.err) /\ UNCHANGED <<mainSrc, walk>>
     ELSE /\ pc' = "rewritten"
          /\ mainSrc' = [mainSrc EXCEPT !.edits = r.ed]
          /\ walk' = r.calls
          /\ err' = err
  /\ UNCHANGED <<program, parseResult, bindings, localsSrc, result, files>>

\* compile, line 798: wrapMain(parseResult)
WrapMain ==
  /\ pc = "rewritten"
  /\ LET r == wrapMain(parseResult.mainAst, CallPath(parseResult.index), mainSrc) IN
     IF r.err # NoErr
     THEN Fail(r.err) /\ UNCHANGED mainSrc
     ELSE pc' = "wrapped" /\ mainSrc' = r.src /\ err' = err
  /\ UNCHANGED <<program, parseResult, bindings, localsSrc, result, files, walk>>

\* compile, lines 799-802: return the two rendered texts
ReturnResult ==
  /\ pc = "wrapped"
  /\ pc' = "compiled"
  /\ result' = [locals |-> localsSrc, main |-> mainSrc]
  /\ UNCHANGED <<program, parseResult, bindings, localsSrc, mainSrc, files, err, walk>>

\* mutant: the locals module is written as soon as its export is appended
WriteLocals_mut ==
  /\ pc = "exported"
  /\ pc' = pc
  /\ [name |-> "out/locals.ts", content |-> localsSrc] \notin files
  /\ files' = files \cup {[name |-> "out/locals.ts", content |-> localsSrc]}
  /\ UNCHANGED <<program, parseResult, bindings, localsSrc, mainSrc, result, err, walk>>

\* callback, line 6
WriteLocals ==
  /\ pc = "compiled"
  /\ pc' = "wroteLocals"
  /\ files' = files \cup {[name |-> "out/locals.ts", content |-> result.locals]}
  /\ UNCHANGED <<program, parseResult, bindings, localsSrc, mainSrc, result, err, walk>>

\* callback, line 7
WriteMain ==
  /\ pc = "wroteLocals"
  /\ pc' = "done"
  /\ files' = files \cup {[name |-> "out/main.ts", content |-> result.main]}
  /\ UNCHANGED <<program, parseResult, bindings, localsSrc, mainSrc, result, err, walk>>

Next ==
  \/ Parse
  \/ GetBindings
  \/ AppendExport
  \/ RewriteMain
  \/ WrapMain
  \/ ReturnResult
  \/ WriteLocals
  \/ WriteMain

Spec == Init /\ [][Next]_vars

TypeOK == pc \in {"start", "parsed", "bound", "exported", "rewritten", "wrapped",
                  "compiled", "wroteLocals", "done", "failed"}

\* ------------------------------------------------------------------------
\* Lexical reading of the entry-call argument, used to state the claims:
\* the occurrences of names and classes in a tree, each with the scopes
\* that enclose it.  An occurrence records
\*   after  - a let/const/var declaration of the name precedes it in an
\*            enclosing block
\*   inside - an enclosing block declares the name (before or after it)
\*   par    - an enclosing function, method or catch clause binds the name
\*            as a parameter
\*   hdr    - an enclosing loop header or switch declares the name
\* ------------------------------------------------------------------------
EmptyEnv == [blk |-> {}, inb |-> {}, par |-> {}, hdr |-> {}]

Occurrence(p, name, kind, env) ==
  [at |-> p, name |-> name, kind |-> kind,
   after |-> name \in env.blk, inside |-> name \in env.inb,
   par |-> name \in env.par, hdr |-> name \in env.hdr]

FunctionTypes ==
  {"ArrowFunctionExpression", "FunctionExpression", "FunctionDeclaration", "ObjectMethod"}

DeclaredInList(stmts) ==
  UNION {IF stmts[i].type = "VariableDeclaration" THEN DeclaredNames(stmts[i]) ELSE {}
         : i \in DOMAIN stmts}

RECURSIVE Occ(_, _, _), OccList(_, _, _, _), OccStmts(_, _, _, _, _),
          OccDeclarators(_, _, _, _), OccBind(_, _, _, _)

\* occurrences of the names a pattern binds
OccBind(pat, p, kind, env) ==
  CASE pat.type = "Identifier" -> {Occurrence(p, pat.name, kind, env)}
    [] pat.type = "RestElement" -> OccBind(pat.argument, Sub(p, "argument"), kind, env)
    [] pat.type = "ArrayPattern" ->
         UNION {OccBind(pat.elements[i], SubI(p, "elements", i), kind, env)
                : i \in DOMAIN pat.elements}
    [] pat.type = "ObjectPattern" ->
         UNION {LET prop == pat.properties[i]
                    pp == SubI(p, "properties", i) IN
                IF prop.type = "RestElement"
                THEN OccBind(prop.argument, Sub(pp, "argument"), kind, env)
                ELSE IF prop.shorthand
                     THEN OccBind(prop.value, Sub(pp, "key"), kind, env)
                     ELSE OccBind(prop.value, Sub(pp, "value"), kind, env)
                : i \in DOMAIN pat.properties}
    [] OTHER -> {}

OccList(list, f, p, env) ==
  UNION {Occ(list[i], SubI(p, f, i), env) : i \in DOMAIN list}

\* declarators in order: an initializer sees the earlier declarators' names
OccDeclarators(decls, i, p, env) ==
  IF i > Len(decls) THEN {}
  ELSE LET dp == SubI(p, "declarations", i)
           names == BoundNames(decls[i].id)
       IN (IF IsNull(decls[i].init) THEN {} ELSE Occ(decls[i].init, Sub(dp, "init"), env))
          \cup OccBind(decls[i].id, Sub(dp, "id"), "decl", env)
          \cup OccDeclarators(decls, i + 1, p, [env EXCEPT !.blk = @ \cup names])

\* statements in order: a declaration is in force in the statements after it
OccStmts(list, i, f, p, env) ==
  IF i > Len(list) THEN {}
  ELSE Occ(list[i], SubI(p, f, i), env)
       \cup OccStmts(list, i + 1, f, p,
              IF list[i].type = "VariableDeclaration"
              THEN [env EXCEPT !.blk = @ \cup DeclaredNames(list[i])]
              ELSE env)

Occ(n, p, env) ==
  CASE n.type = "Identifier" -> {Occurrence(p, n.name, "ref", env)}
    [] n.type = "ClassDeclaration" -> {Occurrence(p, "", "classDecl", env)}
    [] n.type = "ClassExpression" -> {Occurrence(p, "", "classExpr", env)}
    [] n.type = "ExpressionStatement" -> Occ(n.expression, Sub(p, "expression"), env)
    [] n.type \in {"ReturnStatement", "UpdateExpression", "SpreadElement"} ->
         IF IsNull(n.argument) THEN {} ELSE Occ(n.argument, Sub(p, "argument"), env)
    [] n.type \in {"BinaryExpression", "AssignmentExpression"} ->
         Occ(n.left, Sub(p, "left"), env) \cup Occ(n.right, Sub(p, "right"), env)
    [] n.type \in {"MemberExpression", "OptionalMemberExpression"} ->
         Occ(n.object, Sub(p, "object"), env)
           \cup (IF n.computed
                 THEN Occ(n.property, Sub(p, "property"), env)
                 ELSE {Occurrence(Sub(p, "property"), n.property.name, "prop", env)})
    [] n.type = "CallExpression" ->
         Occ(n.callee, Sub(p, "callee"), env) \cup OccList(n.arguments, "arguments", p, env)
    [] n.type = "ObjectExpression" -> OccList(n.properties, "properties", p, env)
    [] n.type = "ObjectProperty" ->
         IF n.shorthand THEN Occ(n.key, Sub(p, "key"), env)
         ELSE (IF n.computed THEN Occ(n.key, Sub(p, "key"), env) ELSE {})
              \cup Occ(n.value, Sub(p, "value"), env)
    [] n.type \in FunctionTypes ->
         LET names == UNION {BoundNames(n.params[i]) : i \in DOMAIN n.params}
         IN UNION {OccBind(n.params[i], SubI(p, "params", i), "param", env)
                   : i \in DOMAIN n.params}
            \cup Occ(n.body, Sub(p, "body"), [env EXCEPT !.par = @ \cup names])
    [] n.type = "BlockStatement" ->
         OccStmts(n.body, 1, "body", p, [env EXCEPT !.inb = @ \cup DeclaredInList(n.body)])
    [] n.type = "VariableDeclaration" -> OccDeclarators(n.declarations, 1, p, env)
    [] n.type \in {"ForOfStatement", "ForInStatement"} ->
         LET inner == IF n.left.type = "VariableDeclaration"
                      THEN [env EXCEPT !.hdr = @ \cup DeclaredNames(n.left)]
                      ELSE env
         IN Occ(n.left, Sub(p, "left"), inner)
            \cup Occ(n.right, Sub(p, "right"), inner)
            \cup Occ(n.body, Sub(p, "body"), inner)
    [] n.type = "ForStatement" ->
         LET inner == IF ~IsNull(n.init) /\ n.init.type = "VariableDeclaration"
                      THEN [env EXCEPT !.hdr = @ \cup DeclaredNames(n.init)]
                      ELSE env
         IN (IF IsNull(n.init) THEN {} ELSE Occ(n.init, Sub(p, "init"), inner))
            \cup (IF IsNull(n.test) THEN {} ELSE Occ(n.test, Sub(p, "test"), inner))
            \cup (IF IsNull(n.update) THEN {} ELSE Occ(n.update, Sub(p, "update"), inner))
            \cup Occ(n.body, Sub(p, "body"), inner)
    [] n.type \in {"WhileStatement", "DoWhileStatement"} ->
         Occ(n.test, Sub(p, "test"), env) \cup Occ(n.body, Sub(p, "body"), env)
    [] n.type = "TryStatement" ->
         Occ(n.block, Sub(p, "block"), env)
           \cup (IF IsNull(n.handler) THEN {} ELSE Occ(n.handler, Sub(p, "handler"), env))
           \cup (IF IsNull(n.finalizer) THEN {} ELSE Occ(n.finalizer, Sub(p, "finalizer"), env))
    [] n.type = "CatchClause" ->
         IF IsNull(n.param) THEN Occ(n.body, Sub(p, "body"), env)
         ELSE OccBind(n.param, Sub(p, "param"), "param", env)
              \cup Occ(n.body, Sub(p, "body"),
                       [env EXCEPT !.par = @ \cup BoundNames(n.param)])
    [] n.type = "SwitchStatement" ->
         LET names == UNION {DeclaredInList(n.cases[i].consequent) : i \in DOMAIN n.cases}
             inner == [env EXCEPT !.hdr = @ \cup names]
         IN Occ(n.discriminant, Sub(p, "discriminant"), env)
            \cup UNION {(IF IsNull(n.cases[i].test) THEN {}
                         ELSE Occ(n.cases[i].test, Sub(SubI(p, "cases", i), "test"), inner))
                        \cup OccList(n.cases[i].consequent, "consequent",
                                     SubI(p, "cases", i), inner)
                        : i \in DOMAIN n.cases}
    [] OTHER -> {}

\* the first argument of the entry call, once the locator has found the call
HasFirstArg == parseResult.index > 0 /\ Len(parseResult.mainAst.arguments) > 0
FirstArg == parseResult.mainAst.arguments[1]
FirstArgPath == SubI(CallPath(parseResult.index), "arguments", 1)
ArgOccurrences == IF HasFirstArg THEN Occ(FirstArg, FirstArgPath, EmptyEnv) ELSE {}

TopNames == {bindings[i].name : i \in DOMAIN bindings}

\* the node at a path of the program
RECURSIVE NodeFrom(_, _, _)
NodeFrom(n, p, i) ==
  IF i > Len(p) THEN n
  ELSE NodeFrom(IF p[i][2] = 0 THEN n[p[i][1]] ELSE n[p[i][1]][p[i][2]], p, i + 1)

NodeAt(p) == NodeFrom([body |-> program], p, 1)

EditedAt == {e.at : e \in mainSrc.edits}

Rewritten == pc \in {"rewritten", "wrapped", "compiled", "wroteLocals", "done"}
Extracted == pc \in {"bound", "exported"} \/ Rewritten

BlockDeclares(x) ==
  \E o \in ArgOccurrences : o.kind = "decl" /\ o.name = x /\ o.inside

\* ------------------------------------------------------------------------
\* C1: shadowing by a nested declaration.  For every top-level binding x
\* and every block of the entry-call argument that declares x, a bare
\* reference to x after that declaration (same block or a scope nested in
\* it) is left unrewritten, and a bare reference to x outside the
\* declaring block that nothing else shadows is rewritten.
\* ------------------------------------------------------------------------
C1_Shadowing ==
  Rewritten =>
    \A o \in ArgOccurrences :
      (o.kind = "ref" /\ o.name \in TopNames /\ BlockDeclares(o.name)) =>
        /\ o.after => o.at \notin EditedAt
        /\ (~o.inside /\ ~o.par /\ ~o.hdr) => o.at \in EditedAt

\* ------------------------------------------------------------------------
\* C2: initializer-before-shadow ordering.  For every variable declarator
\* with an initializer inside the entry-call argument: a reference in the
\* initializer to a top-level binding that nothing before the declarator
\* shadows is rewritten (the right-hand x of let x = x + 1), a reference
\* to a name an earlier declaration of an enclosing block has removed is
\* not, and the declared names on the left are never rewritten.
\* ------------------------------------------------------------------------
InInitializer(p) ==
  \E k \in 2..Len(p) : p[k] = <<"init", 0>> /\ p[k - 1][1] = "declarations"

C2_InitializerBeforeShadow ==
  Rewritten =>
    \A o \in ArgOccurrences :
      /\ o.kind = "decl" => o.at \notin EditedAt
      /\ (o.kind = "ref" /\ InInitializer(o.at) /\ o.name \in TopNames) =>
           /\ (~o.after /\ ~o.par /\ ~o.hdr) => o.at \in EditedAt
           /\ o.after => o.at \notin EditedAt

\* ------------------------------------------------------------------------
\* C3: rewritten names are always exported.  Every snapshot of the walk
\* is a subset of the extracted binding names, and every name rewritten
\* in the main module has a property in the object the locals module
\* exports: a direct one for a read-only binding, a getter and a setter
\* for a mutable one.
\* ------------------------------------------------------------------------
Appended == {localsSrc.appended[i] : i \in DOMAIN localsSrc.appended}

HasExportProperty(name) ==
  \E i \in DOMAIN bindings :
    /\ bindings[i].name = name
    /\ IF bindings[i].readonly
       THEN ReadonlyProp(name) \in Appended
       ELSE GetterProp(name) \in Appended /\ SetterProp(name) \in Appended

C3_RewrittenNamesExported ==
  Rewritten =>
    /\ \A l \in walk : l.pre \subseteq TopNames /\ l.post \subseteq TopNames
    /\ \A e \in mainSrc.edits : e.name \in TopNames /\ HasExportProperty(e.name)

\* a main module that reads a read-only and a mutable binding
C3_Witness ==
  /\ pc = "done"
  /\ \E e1, e2 \in mainSrc.edits :
       \E i, j \in DOMAIN bindings :
         /\ bindings[i].name = e1.name /\ bindings[i].readonly
         /\ bindings[j].name = e2.name /\ ~bindings[j].readonly

\* ------------------------------------------------------------------------
\* C4: the main module depends only on the first argument.  When the
\* entry call has a first argument with no unsupported construct in it
\* (and the top-level declarations can be classified), compile succeeds,
\* the main module is the header followed by the first argument rewritten
\* on its own, and a first argument that names no top-level binding is
\* left as it was; the callee chain and the further arguments contribute
\* no text, no rewrite and no failure.
\* ------------------------------------------------------------------------
Compiled == pc \in {"compiled", "wroteLocals", "done"}

FirstArgSupported ==
  \A o \in ArgOccurrences : o.kind \notin {"classDecl", "classExpr"}

C4_MainShape ==
  (pc # "start" /\ HasFirstArg /\ FirstArgSupported
     /\ getBindings(parseResult.localsAst).err = NoErr) =>
    /\ pc # "failed"
    /\ Compiled =>
         /\ result.main.head = MainHeader
         /\ result.main.kept = FirstArgPath
         /\ result.main.edits = call_processArgument(FirstArg, FirstArgPath, TopNames).ed
         /\ (\A o \in ArgOccurrences : o.name \notin TopNames) => result.main.edits = {}

\* ------------------------------------------------------------------------
\* C5: entry detection.  The locator returns the first top-level statement
\* that is an expression statement holding a call with an app-rooted
\* callee, the locals statement list is the program with exactly that
\* statement removed, and compilation fails with "No app() call found"
\* exactly when no top-level statement matches.
\* ------------------------------------------------------------------------
RECURSIVE AppRooted(_)
AppRooted(e) ==
  \/ e.type = "Identifier" /\ e.name = "app"
  \/ e.type = "CallExpression" /\ AppRooted(e.callee)
  \/ e.type = "MemberExpression" /\ AppRooted(e.object)

EntryIndexes ==
  {i \in DOMAIN program :
     /\ program[i].type = "ExpressionStatement"
     /\ program[i].expression.type = "CallExpression"
     /\ AppRooted(program[i].expression.callee)}

C5_EntryDetection ==
  pc # "start" =>
    IF EntryIndexes = {}
    THEN pc = "failed" /\ err = "No app() call found"
    ELSE /\ err # "No app() call found"
         /\ parseResult.index \in EntryIndexes
         /\ \A i \in EntryIndexes : parseResult.index <= i
         /\ parseResult.mainAst = program[parseResult.index].expression
         /\ Len(parseResult.localsAst) = Len(program) - 1
         /\ \A j \in DOMAIN parseResult.localsAst :
              parseResult.localsAst[j] =
                IF j < parseResult.index THEN program[j] ELSE program[j + 1]

\* the second statement is taken although the third is an entry call too
C5_Witness ==
  /\ pc = "parsed"
  /\ parseResult.index = 2
  /\ Cardinality(EntryIndexes) = 2

\* ------------------------------------------------------------------------
\* C6: binding and mutability classification.  For every list of
\* top-level statements the extractor accepts, it returns, in declaration
\* order, one binding per simple-name declarator and one per local name of
\* each value import; read-only exactly for const declarations and
\* imports; type-only imports and the other statement kinds give no
\* binding.
\* C6_Classification is the statement as claimed.
\* C6_ClassificationExceptApp leaves out the import local name app and
\* counts the entries of an object-destructuring declarator: one binding
\* named after the key of each keyed entry and one for the identifier of a
\* rest capture; an array-destructuring declarator gives none.
\* ------------------------------------------------------------------------
RECURSIVE EntryBindings(_, _, _)
EntryBindings(props, i, readonly) ==
  IF i > Len(props) THEN <<>>
  ELSE <<[name |-> IF props[i].type = "RestElement"
                   THEN props[i].argument.name
                   ELSE props[i].key.name,
          readonly |-> readonly]>>
       \o EntryBindings(props, i + 1, readonly)

\* entries: whether the entries of an object pattern are counted
RECURSIVE DeclaratorBindings(_, _, _, _)
DeclaratorBindings(decls, i, readonly, entries) ==
  IF i > Len(decls) THEN <<>>
  ELSE (CASE decls[i].id.type = "Identifier" ->
               <<[name |-> decls[i].id.name, readonly |-> readonly]>>
          [] decls[i].id.type = "ObjectPattern" /\ entries ->
               EntryBindings(decls[i].id.properties, 1, readonly)
          [] OTHER -> <<>>)
       \o DeclaratorBindings(decls, i + 1, readonly, entries)

RECURSIVE ImportLocals(_, _, _)
ImportLocals(specs, i, skip) ==
  IF i > Len(specs) THEN <<>>
  ELSE (IF specs[i].local.name \in skip
        THEN <<>>
        ELSE <<[name |-> specs[i].local.name, readonly |-> TRUE]>>)
       \o ImportLocals(specs, i + 1, skip)

RECURSIVE ClaimedBindings(_, _, _, _)
ClaimedBindings(stmts, i, skip, entries) ==
  IF i > Len(stmts) THEN <<>>
  ELSE (CASE stmts[i].type = "VariableDeclaration" ->
               DeclaratorBindings(stmts[i].declarations, 1, stmts[i].kind = "const",
                                  entries)
          [] stmts[i].type = "ImportDeclaration" /\ stmts[i].importKind # "type" ->
               ImportLocals(stmts[i].specifiers, 1, skip)
          [] OTHER -> <<>>)
       \o ClaimedBindings(stmts, i + 1, skip, entries)

C6_Classification ==
  Extracted => bindings = ClaimedBindings(parseResult.localsAst, 1, {}, FALSE)

C6_ClassificationExceptApp ==
  Extracted => bindings = ClaimedBindings(parseResult.localsAst, 1, {"app"}, TRUE)

\* an object-destructuring declaration followed by a value import that
\* also imports app: the keyed entry, the rest capture and the other import
C6_Witness ==
  /\ pc = "bound"
  /\ Len(parseResult.localsAst) = 2
  /\ parseResult.localsAst[1].type = "VariableDeclaration"
  /\ parseResult.localsAst[1].declarations[1].id.type = "ObjectPattern"
  /\ parseResult.localsAst[2].type = "ImportDeclaration"
  /\ \E k \in DOMAIN parseResult.localsAst[2].specifiers :
       parseResult.localsAst[2].specifiers[k].local.name = "app"
  /\ Len(bindings) = 3
  /\ \A k \in DOMAIN bindings : bindings[k].name # "app" /\ bindings[k].readonly

\* ------------------------------------------------------------------------
\* C7: rejection of unsupported constructs.  When the entry-call argument
\* contains a class declaration or a class expression, compile fails
\* instead of returning output modules.
\* ------------------------------------------------------------------------
C7_UnsupportedRejected ==
  (\E o \in ArgOccurrences : o.kind \in {"classDecl", "classExpr"}) => ~Rewritten

\* ------------------------------------------------------------------------
\* C8: all-or-nothing output.  If compile fails at any stage no file is
\* written, and a file is written only after compile has returned both
\* module texts.
\* ------------------------------------------------------------------------
C8_AllOrNothing ==
  /\ (pc = "failed" \/ err # NoErr) => files = {}
  /\ files # {} =>
       /\ pc \in {"wroteLocals", "done"}
       /\ result = [locals |-> localsSrc, main |-> mainSrc]
       /\ result.main.head = MainHeader
       /\ \A f \in files : f.content \in {result.locals, result.main}

\* compile failed in the rewriting stage, after the export was appended
C8_Witness ==
  /\ pc = "failed"
  /\ err = "Not implemented: ClassDeclaration"
  /\ localsSrc.appended # <<>>
  /\ files = {}

\* ------------------------------------------------------------------------
\* C9: the entry-call identifier is never persisted state.  The extracted
\* binding list has no binding named app, whichever declaration form
\* introduces the name, and the locals export has no app property.
\* ------------------------------------------------------------------------
C9_AppNeverBound ==
  Extracted =>
    /\ "app" \notin TopNames
    /\ Appended \cap {ReadonlyProp("app"), GetterProp("app"), SetterProp("app")} = {}

\* ------------------------------------------------------------------------
\* C10: parameter shadowing.  In the entry-call argument, the occurrence
\* of a name as a parameter of a function, arrow function, object method
\* or catch clause is left unrewritten, and so is every reference to that
\* name inside the body.
\* ------------------------------------------------------------------------
C10_ParameterShadowing ==
  Rewritten =>
    \A o \in ArgOccurrences :
      /\ o.kind = "param" => o.at \notin EditedAt
      /\ (o.kind = "ref" /\ o.par) => o.at \notin EditedAt

\* names the entry-call argument declares or binds nowhere: no snapshot of
\* the walk through the argument can have lost them
DeclaredInArgument ==
  {o.name : o \in {q \in ArgOccurrences : q.kind \in {"decl", "param"}}}

\* ------------------------------------------------------------------------
\* C11: complete walk over loops.  Every bare reference in the entry-call
\* argument to a top-level binding that the argument declares nowhere
\* (its name is in every snapshot of the walk) is rewritten wherever it
\* occurs, the header expressions and the body of every loop included.
\* ------------------------------------------------------------------------
C11_CompleteWalk ==
  Rewritten =>
    \A o \in ArgOccurrences :
      (o.kind = "ref" /\ o.name \in TopNames \ DeclaredInArgument) =>
        o.at \in EditedAt

\* the statements of the body of the entry-call argument, when it is a
\* function with a block body; the walk enters it with the initial snapshot
HasMainBody ==
  /\ HasFirstArg
  /\ FirstArg.type \in {"ArrowFunctionExpression", "FunctionExpression"}
  /\ FirstArg.body.type = "BlockStatement"

MainBody == FirstArg.body.body
MainBodyPath(i) == SubI(Sub(FirstArgPath, "body"), "body", i)

ScopeStatementTypes ==
  {"BlockStatement", "ForStatement", "ForInStatement", "ForOfStatement",
   "WhileStatement", "DoWhileStatement", "TryStatement", "SwitchStatement",
   "FunctionDeclaration"}

IsScopeConstruct(stmt) ==
  \/ stmt.type \in ScopeStatementTypes
  \/ /\ stmt.type = "ExpressionStatement"
     /\ stmt.expression.type \in FunctionTypes \cup {"ObjectExpression"}

\* the names a construct declares or binds in its header or body
DeclaredWithin(stmt) ==
  {o.name : o \in {q \in Occ(stmt, <<>>, EmptyEnv) : q.kind \in {"decl", "param"}}}

\* the snapshot of the enclosing scope when the walk reaches statement i
RECURSIVE SnapshotBefore(_)
SnapshotBefore(i) ==
  IF i = 1 THEN InitialSnapshot(bindings)
  ELSE call_processStmt(MainBody[i - 1], MainBodyPath(i - 1), SnapshotBefore(i - 1)).b

SnapshotAfter(i) == call_processStmt(MainBody[i], MainBodyPath(i), SnapshotBefore(i)).b

\* ------------------------------------------------------------------------
\* C12: copy-on-write scope snapshots.  When the rewrite of a
\* scope-introducing construct in the body of the entry-call argument
\* completes, the snapshot of the enclosing scope is the set it was before
\* the construct, and a later statement of the enclosing scope that is a
\* bare reference to a top-level name declared only inside the construct
\* is rewritten.
\* ------------------------------------------------------------------------
C12_SnapshotsRestored ==
  (Rewritten /\ HasMainBody) =>
    \A i \in DOMAIN MainBody :
      IsScopeConstruct(MainBody[i]) =>
        /\ SnapshotAfter(i) = SnapshotBefore(i)
        /\ \A j \in DOMAIN MainBody :
             (/\ i < j
              /\ MainBody[j].type = "ExpressionStatement"
              /\ MainBody[j].expression.type = "Identifier"
              /\ MainBody[j].expression.name \in TopNames \cap DeclaredWithin(MainBody[i])
              /\ MainBody[j].expression.name \notin DeclaredInList(SubSeq(MainBody, 1, j - 1)))
               => Sub(MainBodyPath(j), "expression") \in EditedAt

\* ------------------------------------------------------------------------
\* C13: only variable references are substituted.  In the entry-call
\* argument, the identifier that is the property name of a non-computed
\* member access (obj.name, obj?.name, also as an assignment target) is
\* never rewritten, whatever the snapshot holds.
\* ------------------------------------------------------------------------
C13_PropertyNamesKept ==
  Rewritten =>
    \A o \in ArgOccurrences : o.kind = "prop" => o.at \notin EditedAt

====
